---- MODULE Spec2Model ----
(***************************************************************************)
(* Response-decoding layer of the Monero light-wallet-server client        *)
(* (src/src/models.rs).  The layer is a family of pure decoders driven by  *)
(* serde: each behaviour of this model is one call, whose input is drawn   *)
(* in Init and whose result is computed by the action of the operation.    *)
(***************************************************************************)
EXTENDS Integers, Sequences, FiniteSets, TLC

VARIABLES pc, input, ret

vars == <<pc, input, ret>>

(***************************************************************************)
(* Wire values: what the self-describing reader (JSON) hands to a visitor. *)
(* Every value is [k, v] with k the kind; a string is a sequence of        *)
(* one-character strings; a map is a sequence of <<key, value>> entries in *)
(* document order.                                                         *)
(***************************************************************************)
WNull == [k |-> "null", v |-> <<>>]
WBool(b) == [k |-> "bool", v |-> b]
WU64(n) == [k |-> "u64", v |-> n]
WI64(n) == [k |-> "i64", v |-> n]
WF64(s) == [k |-> "f64", v |-> s]
WStr(s) == [k |-> "str", v |-> s]
WSeq(s) == [k |-> "seq", v |-> s]
WMap(s) == [k |-> "map", v |-> s]

\* A JSON integer literal: non-negative numbers reach the visitor as u64,
\* negative ones as i64.
WInt(n) == IF n >= 0 THEN WU64(n) ELSE WI64(n)

(***************************************************************************)
(* serde::de::Unexpected, the description of the offending value an error  *)
(* carries: scalars carry their value, Unit / Seq / Map carry nothing.     *)
(***************************************************************************)
NoUnexpected == [u |-> "", raw |-> <<>>]

Unexpected(w) ==
    CASE w.k = "bool" -> [u |-> "Bool", raw |-> w.v]
      [] w.k = "u64"  -> [u |-> "Unsigned", raw |-> w.v]
      [] w.k = "i64"  -> [u |-> "Signed", raw |-> w.v]
      [] w.k = "f64"  -> [u |-> "Float", raw |-> w.v]
      [] w.k = "str"  -> [u |-> "Str", raw |-> w.v]
      [] w.k = "null" -> [u |-> "Unit", raw |-> <<>>]
      [] w.k = "seq"  -> [u |-> "Seq", raw |-> <<>>]
      [] w.k = "map"  -> [u |-> "Map", raw |-> <<>>]

(***************************************************************************)
(* Results and the constructors of serde::de::Error.                       *)
(***************************************************************************)
NoErr == [kind |-> "", unexp |-> NoUnexpected, exp |-> "", field |-> ""]
Ok(x) == [ok |-> TRUE, val |-> x, err |-> NoErr]
Fail(e) == [ok |-> FALSE, val |-> <<>>, err |-> e]

invalid_type(w, exp) ==
    Fail([kind |-> "invalid_type", unexp |-> Unexpected(w), exp |-> exp, field |-> ""])
invalid_value(w, exp) ==
    Fail([kind |-> "invalid_value", unexp |-> Unexpected(w), exp |-> exp, field |-> ""])
invalid_length(exp) ==
    Fail([kind |-> "invalid_length", unexp |-> NoUnexpected, exp |-> exp, field |-> ""])
missing_field(name) ==
    Fail([kind |-> "missing_field", unexp |-> NoUnexpected, exp |-> "", field |-> name])
duplicate_field(name) ==
    Fail([kind |-> "duplicate_field", unexp |-> NoUnexpected, exp |-> "", field |-> name])
unknown_variant(w, exp) ==
    Fail([kind |-> "unknown_variant", unexp |-> Unexpected(w), exp |-> exp, field |-> ""])
custom(msg) ==
    Fail([kind |-> "custom", unexp |-> NoUnexpected, exp |-> msg, field |-> ""])

(***************************************************************************)
(* The tolerant boolean decoder.                                           *)
(***************************************************************************)
BoolVisitor == "integer or boolean"

visit_bool(value) == Ok(value)

visit_u64_strict(value) ==
    IF value = 1 THEN Ok(TRUE) ELSE invalid_value(WU64(value), BoolVisitor)

visit_u64_truthy(value) == Ok(value # 0)

visit_u64(value) ==
    CASE value = 0 -> Ok(FALSE)
      [] value = 1 -> Ok(TRUE)
      [] OTHER     -> invalid_value(WU64(value), BoolVisitor)

\* deserialize_any dispatches on the kind of the value; every visit method
\* BoolVisitor does not override is the Visitor default, invalid_type.
number_or_boolean(w) ==
    CASE w.k = "bool" -> visit_bool(w.v)
      [] w.k = "u64"  -> visit_u64(w.v)
      [] OTHER        -> invalid_type(w, BoolVisitor)

(***************************************************************************)
(* Identifiers.  hash_type! declares BlockHash as a fixed_hash tuple       *)
(* struct over [u8; 32] and derives its serde implementations; the other   *)
(* identifiers are the monero crate's 32-byte Hash and 8-byte PaymentId,   *)
(* always used through the HashString adapter.                             *)
(***************************************************************************)
BlockHashLen == 32
CryptoNoteHashLen == 32
PaymentIdLen == 8

HexLower == <<"0","1","2","3","4","5","6","7","8","9","a","b","c","d","e","f">>
HexUpper == <<"0","1","2","3","4","5","6","7","8","9","A","B","C","D","E","F">>

\* The value of a hex digit of either case, -1 for any other character.
HexDigitValue(c) ==
    IF \E i \in 1..16 : HexLower[i] = c
    THEN (CHOOSE i \in 1..16 : HexLower[i] = c) - 1
    ELSE IF \E i \in 1..16 : HexUpper[i] = c
    THEN (CHOOSE i \in 1..16 : HexUpper[i] = c) - 1
    ELSE -1

HexEncodeUpper(bytes) ==
    [i \in 1..(2 * Len(bytes)) |->
        LET b == bytes[(i + 1) \div 2]
        IN  IF i % 2 = 1 THEN HexUpper[(b \div 16) + 1] ELSE HexUpper[(b % 16) + 1]]

HexEncodeSwapped(bytes) ==
    [i \in 1..(2 * Len(bytes)) |->
        LET b == bytes[(i + 1) \div 2]
        IN  IF i % 2 = 1 THEN HexLower[(b % 16) + 1] ELSE HexLower[(b \div 16) + 1]]

\* HashString encode: two lowercase hex digits per byte, high nibble first.
HexEncode(bytes) ==
    [i \in 1..(2 * Len(bytes)) |->
        LET b == bytes[(i + 1) \div 2]
        IN  IF i % 2 = 1 THEN HexLower[(b \div 16) + 1] ELSE HexLower[(b % 16) + 1]]

HashFromStrTruncating(n, s) ==
    IF \E i \in 1..Len(s) : HexDigitValue(s[i]) = -1
    THEN custom("MalformedHex")
    ELSE IF Len(s) \div 2 < n
    THEN custom("LengthMismatch")
    ELSE Ok([i \in 1..n |-> 16 * HexDigitValue(s[2 * i - 1]) + HexDigitValue(s[2 * i])])

\* HashString decode of an n-byte identifier from hex text.
HashFromStr(n, s) ==
    IF \E i \in 1..Len(s) : HexDigitValue(s[i]) = -1
    THEN custom("MalformedHex")
    ELSE IF Len(s) % 2 = 1
    THEN custom("MalformedHex")
    ELSE IF Len(s) \div 2 # n
    THEN custom("LengthMismatch")
    ELSE Ok([i \in 1..n |-> 16 * HexDigitValue(s[2 * i - 1]) + HexDigitValue(s[2 * i])])

HashStringSerialize(bytes) == WStr(HexEncode(bytes))

HashStringDeserialize(n, w) ==
    IF w.k = "str" THEN HashFromStr(n, w.v) ELSE invalid_type(w, "a string")

\* The derived Serialize of the newtype BlockHash([u8; 32]): the inner array,
\* element by element.
BlockHashSerialize(bytes) == WSeq([i \in 1..Len(bytes) |-> WU64(bytes[i])])

\* The derived Deserialize of BlockHash: an array of exactly 32 u8; the
\* first element that is not a u8 decides the error.
BlockHashDeserialize(w) ==
    LET bad(j) == ~(w.v[j].k = "u64" /\ w.v[j].v <= 255)
    IN  IF w.k # "seq"
        THEN invalid_type(w, "an array of length 32")
        ELSE IF Len(w.v) # BlockHashLen
        THEN invalid_length("an array of length 32")
        ELSE IF \E j \in 1..Len(w.v) : bad(j)
        THEN LET i == CHOOSE j \in 1..Len(w.v) :
                        bad(j) /\ \A l \in 1..(j - 1) : ~bad(l)
             IN  IF w.v[i].k \in {"u64", "i64"}
                 THEN invalid_value(w.v[i], "u8")
                 ELSE invalid_type(w.v[i], "u8")
        ELSE Ok([i \in 1..Len(w.v) |-> w.v[i].v])

(***************************************************************************)
(* Field types and the payload structures, field by field in declaration   *)
(* order.  A field is [name, ty, default, with]: default is                *)
(* #[serde(default)], with is the deserialize_with function ("" if none).  *)
(***************************************************************************)
TString == [t |-> "String", of |-> <<>>]
TU64 == [t |-> "u64", of |-> <<>>]
TU32 == [t |-> "u32", of |-> <<>>]
TU16 == [t |-> "u16", of |-> <<>>]
TF32 == [t |-> "f32", of |-> <<>>]
TBool == [t |-> "bool", of |-> <<>>]
TAddress == [t |-> "Address", of |-> <<>>]
TOption(ty) == [t |-> "Option", of |-> ty]
TVec(ty) == [t |-> "Vec", of |-> ty]
TStruct(name) == [t |-> "struct", of |-> name]
THashString(len) == [t |-> "HashString", of |-> len]

F(name, ty) == [name |-> name, ty |-> ty, default |-> FALSE, with |-> ""]
FDefault(name, ty) == [name |-> name, ty |-> ty, default |-> TRUE, with |-> ""]
FWith(name, with) == [name |-> name, ty |-> TBool, default |-> FALSE, with |-> with]

AddressInfo ==
    << F("locked_funds", TString),
       F("total_received", TString),
       F("total_sent", TString),
       F("scanned_height", TU64),
       F("scanned_block_height", TU64),
       F("start_height", TU64),
       F("transaction_height", TU64),
       F("blockchain_height", TU64),
       F("spent_outputs", TVec(TStruct("SpendObject"))),
       F("rates", TOption(TStruct("Rates"))) >>

Rates == << F("AUD", TOption(TF32)) >>

SpendObject ==
    << F("amount", TString),
       F("key_image", THashString(CryptoNoteHashLen)),
       F("tx_pub_key", THashString(CryptoNoteHashLen)),
       F("out_index", TU16),
       F("mixin", TU32) >>

AddressTxs ==
    << F("total_received", TString),
       F("scanned_height", TU64),
       F("scanned_block_height", TU64),
       F("start_height", TU64),
       F("blockchain_height", TU64),
       FDefault("transactions", TVec(TStruct("Transaction"))) >>

Transaction ==
    << F("id", TU64),
       F("hash", THashString(CryptoNoteHashLen)),
       F("timestamp", TString),
       F("total_received", TString),
       F("total_sent", TString),
       F("unlock_time", TU64),
       F("height", TOption(TU64)),
       FDefault("spent_outputs", TVec(TStruct("SpendObject"))),
       F("payment_id", TOption(THashString(PaymentIdLen))),
       FWith("coinbase", "number_or_boolean"),
       FWith("mempool", "number_or_boolean"),
       F("mixin", TU32) >>

AmountOuts == << F("amount_outs", TVec(TStruct("RandomOutput"))) >>

RandomOutputs ==
    << F("amount", TString),
       F("outputs", TVec(TStruct("RandomOutput"))) >>

RandomOutput ==
    << F("global_index", TU64),
       F("public_key", THashString(CryptoNoteHashLen)),
       F("rct", THashString(CryptoNoteHashLen)) >>

UnspentOuts ==
    << F("per_kb_fee", TU64),
       F("fee_mask", TU64),
       F("amount", TString),
       F("outputs", TVec(TStruct("Output"))) >>

Output ==
    << F("tx_id", TU64),
       F("amount", TString),
       F("index", TU16),
       F("global_index", TU64),
       F("rct", TString),
       F("tx_hash", THashString(CryptoNoteHashLen)),
       F("tx_prefix_hash", TString),
       F("public_key", THashString(CryptoNoteHashLen)),
       F("tx_pub_key", THashString(CryptoNoteHashLen)),
       F("spend_key_images", TVec(THashString(CryptoNoteHashLen))),
       F("timestamp", TString),
       F("height", TU64) >>

ImportResponse ==
    << F("payment_address", TOption(TAddress)),
       F("payment_id", TOption(THashString(PaymentIdLen))),
       F("import_fee", TOption(TString)),
       FWith("new_request", "number_or_boolean"),
       FWith("request_fulfilled", "number_or_boolean"),
       F("status", TString) >>

LoginResponse ==
    << FWith("new_address", "number_or_boolean"),
       FWith("generated_locally", "number_or_boolean"),
       F("start_height", TOption(TU64)) >>

StructNames ==
    << "AddressInfo", "Rates", "SpendObject", "AddressTxs", "Transaction",
       "AmountOuts", "RandomOutputs", "RandomOutput", "UnspentOuts", "Output",
       "ImportResponse", "LoginResponse" >>

Fields(name) ==
    CASE name = "AddressInfo"    -> AddressInfo
      [] name = "Rates"          -> Rates
      [] name = "SpendObject"    -> SpendObject
      [] name = "AddressTxs"     -> AddressTxs
      [] name = "Transaction"    -> Transaction
      [] name = "AmountOuts"     -> AmountOuts
      [] name = "RandomOutputs"  -> RandomOutputs
      [] name = "RandomOutput"   -> RandomOutput
      [] name = "UnspentOuts"    -> UnspentOuts
      [] name = "Output"         -> Output
      [] name = "ImportResponse" -> ImportResponse
      [] name = "LoginResponse"  -> LoginResponse

(***************************************************************************)
(* The decoders serde derives for the payload structures.                  *)
(***************************************************************************)
\* monero::Address parses from its base58 text; the model keeps the text and
\* accepts exactly the sample addresses below.
ValidAddresses == { <<"4","A","d","d","r">>, <<"8","S","u","b">> }

IntBits(ty) == CASE ty.t = "u16" -> 16 [] ty.t = "u32" -> 32 [] ty.t = "u64" -> 64

\* An unsigned integer field of the given width.  The numbers of the model
\* are below 2^31, so only the u16 range can be exceeded.
DeserializeUint(ty, w) ==
    CASE w.k = "u64" ->
            IF IntBits(ty) > 16 \/ w.v < 65536 THEN Ok(w.v) ELSE invalid_value(w, ty.t)
      [] w.k = "i64" -> invalid_value(w, ty.t)
      [] OTHER -> invalid_type(w, ty.t)

DeserializeString(w) ==
    IF w.k = "str" THEN Ok(w.v) ELSE invalid_type(w, "a string")

DeserializeF32(w) ==
    IF w.k \in {"u64", "i64", "f64"} THEN Ok(<<w.k, w.v>>) ELSE invalid_type(w, "f32")

DeserializeAddress(w) ==
    IF w.k # "str"
    THEN invalid_type(w, "a string")
    ELSE IF w.v \in ValidAddresses THEN Ok(w.v) ELSE custom("invalid address")

None == <<>>
Some(x) == <<x>>

RECURSIVE Deserialize(_, _)
RECURSIVE visit_seq_elems(_, _, _, _)
RECURSIVE visit_map_entries(_, _, _, _)
RECURSIVE visit_map_finish(_, _, _)
RECURSIVE visit_seq_fields(_, _, _, _)

\* A field's own decoder: the deserialize_with function when it has one.
DeserializeField(f, w) ==
    IF f.with = "number_or_boolean" THEN number_or_boolean(w) ELSE Deserialize(f.ty, w)

\* What the derived visitor does for a field the input never gave.
MissingNoOption(f) ==
    IF f.default THEN Ok(<<>>) ELSE missing_field(f.name)

MissingNoDefault(f) ==
    IF f.with # "" THEN missing_field(f.name)
    ELSE IF f.ty.t = "Option" THEN Ok(None)
    ELSE missing_field(f.name)

Missing(f) ==
    IF f.default THEN Ok(<<>>)
    ELSE IF f.with # "" THEN missing_field(f.name)
    ELSE IF f.ty.t = "Option" THEN Ok(None)
    ELSE missing_field(f.name)

FieldIndex(fields, key) ==
    IF \E i \in 1..Len(fields) : fields[i].name = key
    THEN CHOOSE i \in 1..Len(fields) : fields[i].name = key
    ELSE 0

\* The struct value: a record of the decoded fields.
StructValue(fields, slots) ==
    [n \in {fields[i].name : i \in 1..Len(fields)} |->
        slots[FieldIndex(fields, n)][1]]

\* After the last entry: every field still empty gets its default or fails,
\* in declaration order.
visit_map_finish(fields, i, slots) ==
    IF i > Len(fields)
    THEN Ok(StructValue(fields, slots))
    ELSE IF slots[i] # <<>>
    THEN visit_map_finish(fields, i + 1, slots)
    ELSE LET r == Missing(fields[i])
         IN  IF r.ok
             THEN visit_map_finish(fields, i + 1, [slots EXCEPT ![i] = <<r.val>>])
             ELSE r

visit_map_entries_strict(fields, entries, i, slots) ==
    IF i > Len(entries)
    THEN visit_map_finish(fields, 1, slots)
    ELSE LET key == entries[i][1]
             fi == FieldIndex(fields, key)
         IN  IF fi = 0
             THEN Fail([kind |-> "unknown_field", unexp |-> NoUnexpected,
                        exp |-> "", field |-> key])
             ELSE IF slots[fi] # <<>>
             THEN duplicate_field(key)
             ELSE LET r == DeserializeField(fields[fi], entries[i][2])
                  IN  IF r.ok
                      THEN visit_map_entries(fields, entries, i + 1,
                                             [slots EXCEPT ![fi] = <<r.val>>])
                      ELSE r

\* The derived visit_map: entries in document order; an undeclared key is
\* skipped, a repeated declared key is an error, a value is decoded by its
\* field's decoder and the first failure ends the decode.
visit_map_entries(fields, entries, i, slots) ==
    IF i > Len(entries)
    THEN visit_map_finish(fields, 1, slots)
    ELSE LET key == entries[i][1]
             fi == FieldIndex(fields, key)
         IN  IF fi = 0
             THEN visit_map_entries(fields, entries, i + 1, slots)
             ELSE IF slots[fi] # <<>>
             THEN duplicate_field(key)
             ELSE LET r == DeserializeField(fields[fi], entries[i][2])
                  IN  IF r.ok
                      THEN visit_map_entries(fields, entries, i + 1,
                                             [slots EXCEPT ![fi] = <<r.val>>])
                      ELSE r

\* The derived visit_seq: fields by position; a field past the end of the
\* sequence gets its #[serde(default)] or fails with invalid_length, and so
\* do elements left over after the last field.
visit_seq_fields(fields, elems, i, slots) ==
    IF i > Len(fields)
    THEN IF Len(elems) > Len(fields)
         THEN invalid_length("fewer elements in sequence")
         ELSE Ok(StructValue(fields, slots))
    ELSE IF i > Len(elems)
    THEN IF fields[i].default
         THEN visit_seq_fields(fields, elems, i + 1, [slots EXCEPT ![i] = << <<>> >>])
         ELSE invalid_length("struct with more elements")
    ELSE LET r == DeserializeField(fields[i], elems[i])
         IN  IF r.ok
             THEN visit_seq_fields(fields, elems, i + 1, [slots EXCEPT ![i] = <<r.val>>])
             ELSE r

\* Vec<T>: the elements in order, the first failure ends the decode.
visit_seq_elems(ty, elems, i, acc) ==
    IF i > Len(elems)
    THEN Ok(acc)
    ELSE LET r == Deserialize(ty, elems[i])
         IN  IF r.ok THEN visit_seq_elems(ty, elems, i + 1, Append(acc, r.val)) ELSE r

EmptySlots(fields) == [i \in 1..Len(fields) |-> <<>>]

DeserializeStruct(name, w) ==
    CASE w.k = "map" -> visit_map_entries(Fields(name), w.v, 1, EmptySlots(Fields(name)))
      [] w.k = "seq" -> visit_seq_fields(Fields(name), w.v, 1, EmptySlots(Fields(name)))
      [] OTHER -> invalid_type(w, "struct")

Deserialize(ty, w) ==
    CASE ty.t = "String" -> DeserializeString(w)
      [] ty.t \in {"u16", "u32", "u64"} -> DeserializeUint(ty, w)
      [] ty.t = "f32" -> DeserializeF32(w)
      [] ty.t = "Address" -> DeserializeAddress(w)
      [] ty.t = "HashString" -> HashStringDeserialize(ty.of, w)
      [] ty.t = "Option" ->
            IF w.k = "null"
            THEN Ok(None)
            ELSE LET r == Deserialize(ty.of, w)
                 IN  IF r.ok THEN Ok(Some(r.val)) ELSE r
      [] ty.t = "Vec" ->
            IF w.k = "seq"
            THEN visit_seq_elems(ty.of, w.v, 1, <<>>)
            ELSE invalid_type(w, "a sequence")
      [] ty.t = "struct" -> DeserializeStruct(ty.of, w)

(***************************************************************************)
(* The result envelope: enum MoneroResult<T> { OK(T) }, internally tagged  *)
(* by "status".  The tag entry is taken out of the object and the entries  *)
(* left are what the payload type T is decoded from.                       *)
(***************************************************************************)
Status == "status"

OKTag == <<"O","K">>

VariantIdentifierAny(w) ==
    IF w.k = "str" THEN Ok("OK") ELSE invalid_type(w, "variant identifier")

\* The variant named by the tag value.
VariantIdentifier(w) ==
    IF w.k # "str"
    THEN invalid_type(w, "variant identifier")
    ELSE IF w.v = OKTag THEN Ok("OK") ELSE unknown_variant(w, "OK")

RECURSIVE TaggedContent(_, _, _, _)

TaggedContentKeepTag(entries, i, tag, content) ==
    IF i > Len(entries)
    THEN IF tag = <<>> THEN missing_field(Status) ELSE Ok(WMap(content))
    ELSE IF entries[i][1] = Status
    THEN IF tag # <<>>
         THEN duplicate_field(Status)
         ELSE LET r == VariantIdentifier(entries[i][2])
              IN  IF r.ok
                  THEN TaggedContent(entries, i + 1, <<r.val>>, Append(content, entries[i]))
                  ELSE r
    ELSE TaggedContent(entries, i + 1, tag, Append(content, entries[i]))

\* The entries in document order: the "status" entry is decoded as the
\* variant and dropped, every other entry is buffered untouched.
TaggedContent(entries, i, tag, content) ==
    IF i > Len(entries)
    THEN IF tag = <<>> THEN missing_field(Status) ELSE Ok(WMap(content))
    ELSE IF entries[i][1] = Status
    THEN IF tag # <<>>
         THEN duplicate_field(Status)
         ELSE LET r == VariantIdentifier(entries[i][2])
              IN  IF r.ok
                  THEN TaggedContent(entries, i + 1, <<r.val>>, content)
                  ELSE r
    ELSE TaggedContent(entries, i + 1, tag, Append(content, entries[i]))

\* MoneroResult<T>::deserialize for the payload structure named T.
MoneroResult(T, w) ==
    CASE w.k = "map" ->
            LET c == TaggedContent(w.v, 1, <<>>, <<>>)
            IN  IF ~c.ok
                THEN c
                ELSE LET r == DeserializeStruct(T, c.val)
                     IN  IF r.ok THEN Ok([variant |-> "OK", inner |-> r.val]) ELSE r
      [] w.k = "seq" ->
            IF Len(w.v) = 0
            THEN missing_field(Status)
            ELSE LET t == VariantIdentifier(w.v[1])
                 IN  IF ~t.ok
                     THEN t
                     ELSE LET r == DeserializeStruct(T, WSeq(Tail(w.v)))
                          IN  IF r.ok THEN Ok([variant |-> "OK", inner |-> r.val]) ELSE r
      [] OTHER -> invalid_type(w, "internally tagged enum MoneroResult")

into_inner(self) == self.inner

(***************************************************************************)
(* Bounded inputs.  A call's input is a well-formed document of its type,  *)
(* or one perturbation of it: a field removed, a field's value replaced by *)
(* a sample value, undeclared fields added, the envelope tag inserted.     *)
(***************************************************************************)
MaxVecLen == 2
MaxExtra == 2
MaxUint == 3
MaxNeg == 2
MaxCut == 2

SampleWire ==
    << WBool(TRUE), WBool(FALSE), WNull,
       WStr(<<"y","e","s">>), WStr(<<>>), WStr(<<"1">>), WF64("1.5"),
       WSeq(<<>>), WSeq(<<WU64(1)>>), WSeq(<<WBool(TRUE), WU64(0)>>),
       WMap(<<>>), WMap(<< <<"a", WU64(1)>> >>),
       WU64(255), WU64(65536) >>
    \o [i \in 1..(MaxUint + 1) |-> WU64(i - 1)]
    \o [i \in 1..MaxNeg |-> WI64(0 - i)]

TagSamples ==
    << WStr(OKTag), WStr(<<"e","r","r","o","r">>), WStr(<<"o","k">>), WStr(<<>>),
       WStr(<<"O","K"," ">>), WU64(0), WNull, WBool(TRUE) >>

ExtraNames == << "unknown", "Status", "fee", "x", "rates_usd", "OK" >>

SampleBytes == {0, 10, 171, 255}

PatternBytes(n, pos, b1, b2) == [i \in 1..n |-> IF i = pos THEN b1 ELSE b2]

SeedBytes(n, seed) == [i \in 1..n |-> (seed * 37 + i * 11) % 256]

RECURSIVE GoodWire(_, _, _)
GoodWire(ty, seed, vlen) ==
    CASE ty.t = "String" -> WStr(<<"1", HexLower[(seed % 10) + 1]>>)
      [] ty.t \in {"u16", "u32", "u64"} -> WU64(seed + 7)
      [] ty.t = "f32" -> WF64("0.5")
      [] ty.t = "bool" -> IF seed % 2 = 0 THEN WBool(TRUE) ELSE WU64(0)
      [] ty.t = "Address" -> WStr(<<"4","A","d","d","r">>)
      [] ty.t = "HashString" -> WStr(HexEncode(SeedBytes(ty.of, seed)))
      [] ty.t = "Option" -> GoodWire(ty.of, seed, vlen)
      [] ty.t = "Vec" -> WSeq([j \in 1..vlen |-> GoodWire(ty.of, 2 * seed + j, vlen)])
      [] ty.t = "struct" ->
            WMap([i \in 1..Len(Fields(ty.of)) |->
                    << Fields(ty.of)[i].name,
                       GoodWire(Fields(ty.of)[i].ty, seed + i, vlen) >>])

RemoveAt(seq, i) == [j \in 1..(Len(seq) - 1) |-> IF j < i THEN seq[j] ELSE seq[j + 1]]

Reverse(seq) == [j \in 1..Len(seq) |-> seq[Len(seq) + 1 - j]]

Extras(ex) == [j \in 1..ex |-> << ExtraNames[j], SampleWire[j] >>]

NoPerturbation ==
    [rm |-> 0, rp |-> 0, rv |-> 0, ex |-> 0, front |-> FALSE, vlen |-> 0,
     shape |-> "asis", tag |-> 0]

\* The entries of the document a perturbation p of type T's well-formed
\* document stands for (without the envelope tag).
PayloadEntries(T, p) ==
    LET base == GoodWire(TStruct(T), 1, p.vlen).v
        e1 == IF p.rp > 0 THEN [base EXCEPT ![p.rp] = <<base[p.rp][1], SampleWire[p.rv]>>]
              ELSE base
        e2 == IF p.rm > 0 THEN RemoveAt(e1, p.rm) ELSE e1
        e3 == CASE p.shape = "asis" -> e2
                [] p.shape = "reversed" -> Reverse(e2)
                [] p.shape = "dup" -> Append(e2, e2[1])
    IN  IF p.front THEN Extras(p.ex) \o e3 ELSE e3 \o Extras(p.ex)

\* The same document with the envelope's tag entry first or last.
EnvelopeEntries(T, p) ==
    LET e == PayloadEntries(T, [p EXCEPT !.front = FALSE])
    IN  IF p.tag = 0 THEN e
        ELSE IF p.front THEN << <<Status, TagSamples[p.tag]>> >> \o e
        ELSE Append(e, <<Status, TagSamples[p.tag]>>)

PayloadTypes ==
    { "AddressInfo", "AddressTxs", "AmountOuts", "RandomOutputs", "UnspentOuts",
      "ImportResponse", "LoginResponse" }

AllTypes == {StructNames[i] : i \in 1..Len(StructNames)}

\* The hex text of an identifier in a given letter case.
HexText(bytes, case) ==
    CASE case = "lower" -> HexEncode(bytes)
      [] case = "upper" -> HexEncodeUpper(bytes)
      [] case = "mixed" ->
            [i \in 1..(2 * Len(bytes)) |->
                IF i % 3 = 0 THEN HexEncode(bytes)[i] ELSE HexEncodeUpper(bytes)[i]]

BadChars == << "g", "x", " ", "G" >>

\* A perturbation of hex text: k = "cut" drops the last d characters,
\* "pad" appends d digits, "bad" puts a non-hex character at position d,
\* "0x" prefixes the text with 0x.
HexPerturb(s, k, d) ==
    CASE k = "none" -> s
      [] k = "cut" -> SubSeq(s, 1, Len(s) - d)
      [] k = "pad" -> s \o [i \in 1..d |-> "0"]
      [] k = "bad" -> [s EXCEPT ![((d * 7) % Len(s)) + 1] = BadChars[((d - 1) % 4) + 1]]
      [] k = "0x" -> <<"0", "x">> \o s

Call(op, ty, n, arg, p) == [op |-> op, ty |-> ty, n |-> n, arg |-> arg, p |-> p]

NoRet == Ok(<<>>)

(***************************************************************************)
(* One behaviour is one call: Init draws its input, the action of the      *)
(* operation computes the result.                                          *)
(***************************************************************************)
InitBool ==
    \E j \in 1..Len(SampleWire) :
        input = Call("number_or_boolean", "", 0, SampleWire[j], NoPerturbation)

InitDecode ==
    \E T \in AllTypes :
        \E vlen \in 0..MaxVecLen, rm \in 0..Len(Fields(T)), ex \in 0..MaxExtra,
           front \in BOOLEAN, shape \in {"asis", "reversed", "dup"} :
            /\ (ex = 0 => ~front)
            /\ (shape # "asis" => (rm = 0 /\ ex = 0 /\ vlen = 1))
            /\ LET p == [NoPerturbation EXCEPT !.rm = rm, !.ex = ex, !.front = front,
                                               !.vlen = vlen, !.shape = shape]
               IN  input = Call("decode", T, 0, WMap(PayloadEntries(T, p)), p)

InitDecodeReplaced ==
    \E T \in AllTypes :
        \E rp \in 1..Len(Fields(T)), rv \in 1..Len(SampleWire) :
            LET p == [NoPerturbation EXCEPT !.rp = rp, !.rv = rv, !.vlen = 1]
            IN  input = Call("decode", T, 0, WMap(PayloadEntries(T, p)), p)

InitEnvelope ==
    \E T \in PayloadTypes :
        \E vlen \in 0..1, rm \in 0..Len(Fields(T)), tag \in 0..Len(TagSamples),
           front \in BOOLEAN, ex \in 0..MaxExtra :
            /\ (tag = 0 => ~front)
            /\ (ex > 0 => tag = 1 /\ rm = 0)
            /\ LET p == [NoPerturbation EXCEPT !.rm = rm, !.tag = tag, !.front = front,
                                               !.vlen = vlen, !.ex = ex]
               IN  input = Call("envelope", T, 0, WMap(EnvelopeEntries(T, p)), p)

InitHashEncode ==
    \E n \in {PaymentIdLen, CryptoNoteHashLen} :
        \E pos \in {1, n \div 2, n}, b1 \in SampleBytes, b2 \in SampleBytes :
            input = Call("hash_encode", "", n, PatternBytes(n, pos, b1, b2), NoPerturbation)

InitHashDecode ==
    \E n \in {PaymentIdLen, CryptoNoteHashLen} :
        \E pos \in {1, n}, b1 \in SampleBytes, b2 \in {10, 171},
           case \in {"lower", "upper", "mixed"},
           k \in {"none", "cut", "pad", "bad", "0x"}, d \in 1..(2 * MaxCut) :
            /\ (k \in {"none", "0x"} => d = 1)
            /\ input = Call("hash_decode", case, n,
                            WStr(HexPerturb(HexText(PatternBytes(n, pos, b1, b2), case), k, d)),
                            [NoPerturbation EXCEPT !.shape = k, !.ex = d])

InitHashDecodeOther ==
    \E n \in {PaymentIdLen, CryptoNoteHashLen} :
        \E j \in 1..Len(SampleWire) :
            input = Call("hash_decode", "lower", n, SampleWire[j],
                         [NoPerturbation EXCEPT !.shape = "other"])

InitBlockHash ==
    \E pos \in {1, BlockHashLen}, b1 \in SampleBytes, b2 \in SampleBytes :
        input = Call("blockhash", "", BlockHashLen,
                     PatternBytes(BlockHashLen, pos, b1, b2), NoPerturbation)

Init ==
    /\ pc = "ready"
    /\ ret = NoRet
    /\ \/ InitBool
       \/ InitDecode
       \/ InitDecodeReplaced
       \/ InitEnvelope
       \/ InitHashEncode
       \/ InitHashDecode
       \/ InitHashDecodeOther
       \/ InitBlockHash

\* A tolerant-boolean field's decoder applied to a wire value.
DecodeBool ==
    /\ pc = "ready" /\ input.op = "number_or_boolean"
    /\ ret' = number_or_boolean(input.arg)
    /\ pc' = "done"
    /\ UNCHANGED input

\* A payload structure decoded directly from a document.
DecodePayload ==
    /\ pc = "ready" /\ input.op = "decode"
    /\ ret' = DeserializeStruct(input.ty, input.arg)
    /\ pc' = "done"
    /\ UNCHANGED input

\* The envelope MoneroResult<T> decoded from a document.
DecodeEnvelope ==
    /\ pc = "ready" /\ input.op = "envelope"
    /\ ret' = MoneroResult(input.ty, input.arg)
    /\ pc' = "decoded"
    /\ UNCHANGED input

\* into_inner on the envelope just decoded.
IntoInner ==
    /\ pc = "decoded" /\ input.op = "envelope" /\ ret.ok
    /\ ret' = Ok(into_inner(ret.val))
    /\ pc' = "done"
    /\ UNCHANGED input

\* An identifier encoded to its wire string.
HashEncode ==
    /\ pc = "ready" /\ input.op = "hash_encode"
    /\ ret' = Ok(HashStringSerialize(input.arg))
    /\ pc' = "encoded"
    /\ UNCHANGED input

\* The wire string just encoded, decoded again.
HashDecodeEncoded ==
    /\ pc = "encoded" /\ input.op = "hash_encode"
    /\ ret' = HashStringDeserialize(input.n, ret.val)
    /\ pc' = "done"
    /\ UNCHANGED input

\* An identifier decoded from a wire value.
HashDecode ==
    /\ pc = "ready" /\ input.op = "hash_decode"
    /\ ret' = HashStringDeserialize(input.n, input.arg)
    /\ pc' = "decoded"
    /\ UNCHANGED input

\* The identifier just decoded, encoded again.
HashReencode ==
    /\ pc = "decoded" /\ input.op = "hash_decode" /\ ret.ok
    /\ ret' = Ok(HashStringSerialize(ret.val))
    /\ pc' = "done"
    /\ UNCHANGED input

\* A BlockHash serialized by its derived implementation.
BlockHashEncode ==
    /\ pc = "ready" /\ input.op = "blockhash"
    /\ ret' = Ok(BlockHashSerialize(input.arg))
    /\ pc' = "encoded"
    /\ UNCHANGED input

\* The serialized BlockHash decoded by its derived implementation.
BlockHashDecodeEncoded ==
    /\ pc = "encoded" /\ input.op = "blockhash"
    /\ ret' = BlockHashDeserialize(ret.val)
    /\ pc' = "done"
    /\ UNCHANGED input

Next ==
    \/ DecodeBool
    \/ DecodePayload
    \/ DecodeEnvelope
    \/ IntoInner
    \/ HashEncode
    \/ HashDecodeEncoded
    \/ HashDecode
    \/ HashReencode
    \/ BlockHashEncode
    \/ BlockHashDecodeEncoded

Spec == Init /\ [][Next]_vars

(***************************************************************************)
(* The error kinds of the specification, read on the decoder's errors: a   *)
(* kind names the place that raised the error.                             *)
(***************************************************************************)
MissingField(e, name) == e.kind = "missing_field" /\ e.field = name

UnknownStatus(e) ==
    \/ e.kind = "unknown_variant"
    \/ e.kind = "invalid_type" /\ e.exp = "variant identifier"

UnexpectedBooleanEncoding(e) ==
    e.kind \in {"invalid_value", "invalid_type"} /\ e.exp = BoolVisitor

MalformedHex(e) == e.kind = "custom" /\ e.exp = "MalformedHex"

LengthMismatch(e) == e.kind = "custom" /\ e.exp = "LengthMismatch"

\* The error carries the raw value w itself, not only its kind.
ReportsRawValue(e, w) ==
    \/ w.k = "null" /\ e.unexp.u = "Unit"
    \/ /\ w.k \in {"bool", "u64", "i64", "f64", "str"}
       /\ e.unexp.u \in {"Bool", "Unsigned", "Signed", "Float", "Str"}
       /\ e.unexp = Unexpected(w)
       /\ e.unexp.raw = w.v

\* The four wire values a tolerant boolean accepts, and what each means.
IsBoolEncoding(w) == w.k = "bool" \/ (w.k = "u64" /\ w.v \in {0, 1})

BoolOf(w) == IF w.k = "bool" THEN w.v ELSE w.v = 1

Called(op) == pc # "ready" /\ input.op = op

\* The call decodes a structure whose field number p.rp was replaced.
ReplacedField == Fields(input.ty)[input.p.rp]

RemovedField == Fields(input.ty)[input.p.rm]

\* The value of the entry named key in a document's entries.
EntryValue(entries, key) ==
    entries[CHOOSE i \in 1..Len(entries) : entries[i][1] = key][2]

(***************************************************************************)
(* C1: the tolerant boolean decoder succeeds on JSON true, JSON false,     *)
(* integer 0 and integer 1, yielding true, false, false and true, both     *)
(* called on the value alone and as the decoder of each field it is        *)
(* attached to (coinbase, mempool, new_request, request_fulfilled,         *)
(* new_address, generated_locally).                                        *)
(***************************************************************************)
C1_TolerantBooleanAccepts ==
    /\ (Called("number_or_boolean") /\ IsBoolEncoding(input.arg))
          => ret = Ok(BoolOf(input.arg))
    /\ (/\ Called("decode") /\ input.p.rp > 0
        /\ ReplacedField.with = "number_or_boolean"
        /\ IsBoolEncoding(SampleWire[input.p.rv]))
          => /\ ret.ok
             /\ ret.val[ReplacedField.name] = BoolOf(SampleWire[input.p.rv])

C1_Witness ==
    /\ Called("decode") /\ input.ty = "LoginResponse" /\ input.p.rp = 2
    /\ SampleWire[input.p.rv] = WU64(0)
    /\ ret.ok /\ ret.val.generated_locally = FALSE

(***************************************************************************)
(* C2: an AddressTxs document without `transactions` and a Transaction     *)
(* document without `spent_outputs` decode, with an empty sequence for the *)
(* absent field; when the field is present the decoded sequence holds      *)
(* exactly the records of the input, in input order.                       *)
(***************************************************************************)
C2_WireList == EntryValue(input.arg.v, "transactions").v

C2_OptionalSequenceDefault ==
    /\ (/\ Called("decode") /\ input.ty = "AddressTxs" /\ input.p.rp = 0
        /\ input.p.shape # "dup"
        /\ input.p.rm = FieldIndex(AddressTxs, "transactions"))
          => ret.ok /\ ret.val.transactions = <<>>
    /\ (/\ Called("decode") /\ input.ty = "Transaction" /\ input.p.rp = 0
        /\ input.p.shape # "dup"
        /\ input.p.rm = FieldIndex(Transaction, "spent_outputs"))
          => ret.ok /\ ret.val.spent_outputs = <<>>
    /\ (/\ Called("decode") /\ input.ty = "AddressTxs" /\ input.p.rp = 0
        /\ input.p.shape # "dup" /\ input.p.rm = 0)
          => /\ ret.ok
             /\ Len(ret.val.transactions) = input.p.vlen
             /\ Len(C2_WireList) = input.p.vlen
             /\ \A j \in 1..input.p.vlen :
                   /\ ret.val.transactions[j]
                        = DeserializeStruct("Transaction", C2_WireList[j]).val
                   /\ ret.val.transactions[j].id = EntryValue(C2_WireList[j].v, "id").v
                   /\ \A l \in 1..input.p.vlen :
                         l # j => ret.val.transactions[l] # ret.val.transactions[j]

C2_Witness ==
    /\ Called("decode") /\ input.ty = "AddressTxs"
    /\ input.p.rm = FieldIndex(AddressTxs, "transactions")
    /\ input.p.vlen = MaxVecLen
    /\ ret.ok /\ ret.val.transactions = <<>>

(***************************************************************************)
(* C3 as claimed: in every payload type, every field other than            *)
(* AddressTxs.transactions and Transaction.spent_outputs is mandatory:     *)
(* removing it from a well-formed document fails with MissingField naming  *)
(* the removed field.                                                      *)
(***************************************************************************)
C3_RemovedOne ==
    /\ Called("decode") /\ input.p.rm > 0 /\ input.p.rp = 0 /\ input.p.shape = "asis"

C3_Original ==
    (/\ C3_RemovedOne
     /\ ~(input.ty = "AddressTxs" /\ RemovedField.name = "transactions")
     /\ ~(input.ty = "Transaction" /\ RemovedField.name = "spent_outputs"))
       => ~ret.ok /\ MissingField(ret.err, RemovedField.name)

(***************************************************************************)
(* C3 amended: a removed field that is neither #[serde(default)] nor       *)
(* Option-typed fails the decode with MissingField naming it (a tolerant   *)
(* boolean included); a removed Option-typed field decodes to None and     *)
(* leaves every other field as in the full document.                       *)
(***************************************************************************)
C3_Full ==
    DeserializeStruct(input.ty, WMap(PayloadEntries(input.ty, [input.p EXCEPT !.rm = 0])))

C3_MandatoryFields ==
    C3_RemovedOne =>
        IF RemovedField.default
        THEN ret.ok /\ ret.val[RemovedField.name] = <<>>
        ELSE IF RemovedField.ty.t = "Option"
        THEN /\ ret.ok /\ C3_Full.ok
             /\ ret.val[RemovedField.name] = None
             /\ \A i \in 1..Len(Fields(input.ty)) :
                   i # input.p.rm =>
                      ret.val[Fields(input.ty)[i].name]
                         = C3_Full.val[Fields(input.ty)[i].name]
        ELSE ~ret.ok /\ MissingField(ret.err, RemovedField.name)

C3_Witness ==
    /\ C3_RemovedOne /\ input.ty = "AddressInfo"
    /\ RemovedField.name = "scanned_height"
    /\ ~ret.ok /\ MissingField(ret.err, "scanned_height")

(***************************************************************************)
(* C4 as claimed: for every payload type T, a document holding             *)
(* "status":"OK" and the payload's fields, decoded into MoneroResult<T>    *)
(* and unwrapped with into_inner, yields the payload that decoding T       *)
(* directly from the same document yields.                                 *)
(***************************************************************************)
C4_Direct == DeserializeStruct(input.ty, input.arg)

\* The document holds exactly one status entry, and it is "OK".
C4_TaggedOK ==
    /\ \E i \in 1..Len(input.arg.v) : input.arg.v[i] = <<Status, WStr(OKTag)>>
    /\ \A i, j \in 1..Len(input.arg.v) :
          (input.arg.v[i][1] = Status /\ input.arg.v[j][1] = Status) => i = j

C4_Original ==
    (/\ input.op = "envelope" /\ pc \in {"decoded", "done"}
     /\ C4_TaggedOK /\ C4_Direct.ok)
       => /\ ret.ok
          /\ pc = "done" => ret.val = C4_Direct.val

(***************************************************************************)
(* C4 amended: the equivalence holds for every payload type that declares  *)
(* no `status` field of its own (all but ImportResponse): envelope decode  *)
(* then into_inner and direct decode of the same document agree, in the    *)
(* payload and in the failure.  The envelope takes the `status` entry out  *)
(* of the document, so MoneroResult<ImportResponse> never decodes: with    *)
(* the one status entry "OK" it fails with MissingField(status) where the  *)
(* direct decode succeeds.                                                 *)
(***************************************************************************)
DeclaresStatus(T) == \E i \in 1..Len(Fields(T)) : Fields(T)[i].name = Status

C4_EnvelopeUnwrap ==
    /\ (/\ input.op = "envelope" /\ pc \in {"decoded", "done"}
        /\ C4_TaggedOK /\ ~DeclaresStatus(input.ty))
          => /\ ret.ok = C4_Direct.ok
             /\ pc = "done" => ret = C4_Direct
             /\ ~ret.ok => ret = C4_Direct
    /\ (/\ input.op = "envelope" /\ pc \in {"decoded", "done"}
        /\ DeclaresStatus(input.ty))
          => /\ ~ret.ok
             /\ (C4_TaggedOK /\ C4_Direct.ok) => MissingField(ret.err, Status)

C4_Witness ==
    /\ input.op = "envelope" /\ pc = "done" /\ input.ty = "AddressInfo"
    /\ C4_TaggedOK /\ input.p.vlen = 1 /\ input.p.front
    /\ ret.ok /\ ret = C4_Direct

(***************************************************************************)
(* C5: an envelope whose status tag is anything but "OK" fails to decode   *)
(* with UnknownStatus, for every payload type and whatever other fields    *)
(* the document holds; no envelope value is produced.                      *)
(***************************************************************************)
C5_NonOKTag ==
    /\ \E i \in 1..Len(input.arg.v) : input.arg.v[i][1] = Status
    /\ \A i \in 1..Len(input.arg.v) :
          input.arg.v[i][1] = Status => input.arg.v[i][2] # WStr(OKTag)

C5_UnknownStatus ==
    (input.op = "envelope" /\ pc # "ready" /\ C5_NonOKTag)
       => /\ pc = "decoded"
          /\ ~ret.ok
          /\ UnknownStatus(ret.err)

C5_Witness ==
    /\ input.op = "envelope" /\ pc = "decoded" /\ input.ty = "LoginResponse"
    /\ input.p.rm = 0 /\ ~input.p.front
    /\ input.p.tag = 2 /\ TagSamples[2] = WStr(<<"e","r","r","o","r">>)
    /\ ~ret.ok /\ ret.err.kind = "unknown_variant"

(***************************************************************************)
(* C6 as claimed: for every wire value outside {true, false, 0, 1} (an     *)
(* unsigned integer >= 2, a negative integer, a string, null, a composite  *)
(* value) the tolerant boolean decoder fails with                          *)
(* UnexpectedBooleanEncoding and the error reports the offending raw       *)
(* value; no such value is coerced to a boolean.                           *)
(***************************************************************************)
C6_Original ==
    (Called("number_or_boolean") /\ ~IsBoolEncoding(input.arg))
       => /\ ~ret.ok
          /\ UnexpectedBooleanEncoding(ret.err)
          /\ ReportsRawValue(ret.err, input.arg)

(***************************************************************************)
(* C6 amended: every wire value outside {true, false, 0, 1} fails and is   *)
(* never coerced.  An unsigned integer >= 2 fails with invalid_value       *)
(* carrying the integer; every other value fails with the visitor's        *)
(* default invalid_type against "integer or boolean", which carries the    *)
(* raw value of a negative integer, a float, a string or null, but for a   *)
(* sequence or a map only its kind.  A field decoded by number_or_boolean  *)
(* fails its structure's decode with the same error.                       *)
(***************************************************************************)
C6_Expected(w) ==
    IF w.k = "u64" THEN invalid_value(w, BoolVisitor) ELSE invalid_type(w, BoolVisitor)

C6_RejectsOtherEncodings ==
    /\ (Called("number_or_boolean") /\ ~IsBoolEncoding(input.arg))
          => /\ ~ret.ok
             /\ UnexpectedBooleanEncoding(ret.err)
             /\ ret = C6_Expected(input.arg)
             /\ ReportsRawValue(ret.err, input.arg) <=> input.arg.k \notin {"seq", "map"}
    /\ (/\ Called("decode") /\ input.p.rp > 0
        /\ ReplacedField.with = "number_or_boolean"
        /\ ~IsBoolEncoding(SampleWire[input.p.rv]))
          => ret = C6_Expected(SampleWire[input.p.rv])

C6_Witness ==
    /\ Called("number_or_boolean") /\ input.arg = WSeq(<<WU64(1)>>)
    /\ ~ret.ok /\ ret.err.kind = "invalid_type" /\ ret.err.unexp.u = "Seq"
    /\ ~ReportsRawValue(ret.err, input.arg)

(***************************************************************************)
(* C7: an identifier of either width (8-byte payment id, 32-byte hash,     *)
(* key or key image) encoded to its hex string and decoded from that       *)
(* string is the original byte sequence.                                   *)
(***************************************************************************)
C7_HexRoundTrip ==
    /\ (input.op = "hash_encode" /\ pc = "encoded")
          => ret.ok /\ ret.val.k = "str"
    /\ (input.op = "hash_encode" /\ pc = "done")
          => ret = Ok(input.arg) /\ Len(ret.val) = input.n

C7_Witness ==
    /\ input.op = "hash_encode" /\ pc = "done" /\ input.n = PaymentIdLen
    /\ input.arg[1] = 171 /\ input.arg[2] = 10
    /\ ret = Ok(input.arg)

(***************************************************************************)
(* C8: decoding an identifier of width N from a hex string fails whenever  *)
(* the string does not decode to exactly N bytes: with MalformedHex when   *)
(* it holds a non-hex character or has odd length, with LengthMismatch     *)
(* when it is even-length hex of another length; a 63-character string     *)
(* never decodes to a 32-byte identifier.                                  *)
(***************************************************************************)
HexChars ==
    { "0","1","2","3","4","5","6","7","8","9",
      "a","b","c","d","e","f","A","B","C","D","E","F" }

C8_IsHex(s) == \A i \in 1..Len(s) : s[i] \in HexChars

C8_LengthRejection ==
    (input.op = "hash_decode" /\ pc = "decoded" /\ input.arg.k = "str")
       => LET s == input.arg.v
          IN  /\ (~C8_IsHex(s) \/ Len(s) % 2 = 1)
                    => ~ret.ok /\ MalformedHex(ret.err)
              /\ (C8_IsHex(s) /\ Len(s) % 2 = 0 /\ Len(s) # 2 * input.n)
                    => ~ret.ok /\ LengthMismatch(ret.err)
              /\ ret.ok => (Len(s) = 2 * input.n /\ Len(ret.val) = input.n)
              /\ (Len(s) = 63 /\ input.n = CryptoNoteHashLen) => ~ret.ok

C8_Witness ==
    /\ input.op = "hash_decode" /\ pc = "decoded" /\ input.n = CryptoNoteHashLen
    /\ input.arg.k = "str" /\ Len(input.arg.v) = 63 /\ C8_IsHex(input.arg.v)
    /\ ~ret.ok /\ MalformedHex(ret.err)

(***************************************************************************)
(* C9: undeclared fields added to a document do not change the decode: a   *)
(* well-formed document still decodes, and to the payload it decodes to    *)
(* without them.                                                           *)
(***************************************************************************)
C9_WithoutExtras ==
    DeserializeStruct(input.ty,
        WMap(PayloadEntries(input.ty, [input.p EXCEPT !.ex = 0, !.front = FALSE])))

C9_EnvelopeWithoutExtras ==
    MoneroResult(input.ty, WMap(EnvelopeEntries(input.ty, [input.p EXCEPT !.ex = 0])))

C9_UnknownFieldsIgnored ==
    /\ (Called("decode") /\ input.p.ex > 0)
          => /\ ret = C9_WithoutExtras
             /\ (input.p.rm = 0 /\ input.p.rp = 0) => ret.ok
             /\ \A j \in 1..input.p.ex :
                   /\ \E i \in 1..Len(input.arg.v) : input.arg.v[i][1] = ExtraNames[j]
                   /\ FieldIndex(Fields(input.ty), ExtraNames[j]) = 0
    /\ (input.op = "envelope" /\ pc = "decoded" /\ input.p.ex > 0)
          => ret = C9_EnvelopeWithoutExtras

C9_Witness ==
    /\ Called("decode") /\ input.ty = "LoginResponse" /\ input.p.ex = MaxExtra
    /\ input.p.rm = 0 /\ input.p.front
    /\ Len(input.arg.v) = Len(LoginResponse) + MaxExtra
    /\ ret.ok /\ ret = C9_WithoutExtras

(***************************************************************************)
(* C10 as claimed: every identifier type, the 32-byte BlockHash declared   *)
(* by hash_type! included, serializes to a string of exactly 2N lowercase  *)
(* hex characters without a 0x prefix, and decodes case-insensitively from *)
(* 2N hex characters, so that an upper-case string decoded and encoded     *)
(* again is the lower-case form of the same string.                        *)
(***************************************************************************)
LowerHexChars ==
    { "0","1","2","3","4","5","6","7","8","9","a","b","c","d","e","f" }

C10_IsLowerHexString(w, n) ==
    /\ w.k = "str"
    /\ Len(w.v) = 2 * n
    /\ \A i \in 1..Len(w.v) : w.v[i] \in LowerHexChars

C10_Original ==
    /\ (input.op = "blockhash" /\ pc = "encoded")
          => ret.ok /\ C10_IsLowerHexString(ret.val, BlockHashLen)
    /\ (input.op = "hash_encode" /\ pc = "encoded")
          => ret.ok /\ C10_IsLowerHexString(ret.val, input.n)
    /\ (/\ input.op = "hash_decode" /\ pc = "decoded" /\ input.arg.k = "str"
        /\ C8_IsHex(input.arg.v) /\ Len(input.arg.v) = 2 * input.n)
          => ret.ok
    /\ (input.op = "hash_decode" /\ pc = "done")
          => /\ C10_IsLowerHexString(ret.val, input.n)
             /\ \A i \in 1..Len(ret.val.v) :
                   HexDigitValue(ret.val.v[i]) = HexDigitValue(input.arg.v[i])
====
